---------------------------- MODULE Spec2Model ----------------------------
(***************************************************************************)
(* Game of Life on a toroidal grid (src/gol.cpp).                          *)
(*                                                                         *)
(* src/gol.cpp holds three variants of the program, each with its own      *)
(* GameOfLife class and main:                                              *)
(*   "pointer"   lines   1-311  bool** grid, conditional wrap, start()     *)
(*   "optimized" lines 313-574  flat uint8_t grid, index tables, run()     *)
(*   "flat"      lines 576-896  flat vector<bool>, static/empty stop       *)
(* The model carries the variant as part of the configuration and has one  *)
(* action per handler of each variant.                                     *)
(*                                                                         *)
(* Cells are 0 (dead) and 1 (alive); a board is a function from the flat   *)
(* row-major index 0..rows*cols-1 to {0,1}.                                *)
(*                                                                         *)
(* A uint64_t is a tuple of 8 bytes, least significant byte first, so that *)
(* every intermediate value fits the model checker's integers; all         *)
(* arithmetic on it is modulo 2^64 as in the source.  size_t is taken to   *)
(* be 64 bits wide (the cast (size_t)h keeps every bit).                   *)
(***************************************************************************)
EXTENDS Integers, Sequences, FiniteSets, TLC

(***************************************************************************)
(* Bounds of the model.                                                    *)
(***************************************************************************)
MaxRows == 3

MaxCols == 4

MaxCells == 8

MaxSteps == 3

(***************************************************************************)
(* 64-bit unsigned arithmetic on 8 little-endian bytes.                    *)
(***************************************************************************)
Pow2(n) == 2 ^ n

U64Zero == <<0, 0, 0, 0, 0, 0, 0, 0>>

\* The source writes its constants in hexadecimal, most significant byte
\* first; FromHex takes the 8 bytes in that order.
FromHex(b7, b6, b5, b4, b3, b2, b1, b0) == <<b0, b1, b2, b3, b4, b5, b6, b7>>

\* A small non-negative int as a uint64_t: the cast (uint64_t)_row.
FromInt(n) ==
    <<n % 256, (n \div Pow2(8)) % 256, (n \div Pow2(16)) % 256,
      (n \div Pow2(24)) % 256, 0, 0, 0, 0>>

\* Propagate carries through the 8 limb sums t1..t8 (least significant
\* first), dropping the carry out of bit 63.
Carry(t1, t2, t3, t4, t5, t6, t7, t8) ==
    LET v2 == t2 + (t1 \div 256)
        v3 == t3 + (v2 \div 256)
        v4 == t4 + (v3 \div 256)
        v5 == t5 + (v4 \div 256)
        v6 == t6 + (v5 \div 256)
        v7 == t7 + (v6 \div 256)
        v8 == t8 + (v7 \div 256)
    IN  <<t1 % 256, v2 % 256, v3 % 256, v4 % 256,
          v5 % 256, v6 % 256, v7 % 256, v8 % 256>>

\* x + y modulo 2^64
Add64(x, y) ==
    Carry(x[1] + y[1], x[2] + y[2], x[3] + y[3], x[4] + y[4],
          x[5] + y[5], x[6] + y[6], x[7] + y[7], x[8] + y[8])

\* x * y modulo 2^64: limb k of the product is the sum of x[i] * y[k+1-i].
Mul64(x, y) ==
    Carry(x[1]*y[1],
          x[1]*y[2] + x[2]*y[1],
          x[1]*y[3] + x[2]*y[2] + x[3]*y[1],
          x[1]*y[4] + x[2]*y[3] + x[3]*y[2] + x[4]*y[1],
          x[1]*y[5] + x[2]*y[4] + x[3]*y[3] + x[4]*y[2] + x[5]*y[1],
          x[1]*y[6] + x[2]*y[5] + x[3]*y[4] + x[4]*y[3] + x[5]*y[2]
              + x[6]*y[1],
          x[1]*y[7] + x[2]*y[6] + x[3]*y[5] + x[4]*y[4] + x[5]*y[3]
              + x[6]*y[2] + x[7]*y[1],
          x[1]*y[8] + x[2]*y[7] + x[3]*y[6] + x[4]*y[5] + x[5]*y[4]
              + x[6]*y[3] + x[7]*y[2] + x[8]*y[1])

XorNibble ==
    LET RECURSIVE X(_, _, _)
        X(a, b, n) ==
            IF n = 0 THEN 0
            ELSE (IF (a % 2) = (b % 2) THEN 0 ELSE 1)
                 + 2 * X(a \div 2, b \div 2, n - 1)
    IN  [a \in 0..15 |-> [b \in 0..15 |-> X(a, b, 4)]]

XorByte(a, b) ==
    16 * XorNibble[a \div 16][b \div 16] + XorNibble[a % 16][b % 16]

Xor64(x, y) ==
    <<XorByte(x[1], y[1]), XorByte(x[2], y[2]), XorByte(x[3], y[3]),
      XorByte(x[4], y[4]), XorByte(x[5], y[5]), XorByte(x[6], y[6]),
      XorByte(x[7], y[7]), XorByte(x[8], y[8])>>

\* Limb n of x, the least significant being limb 1; 0 past either end.
Limb(x, n) == IF n >= 1 /\ n <= 8 THEN x[n] ELSE 0

\* Limb n of x >> (8 * q + s): the high bits of limb n + q, under the low s
\* bits of the limb above it.
ShrLimb(x, n, q, s) ==
    (Limb(x, n + q) \div Pow2(s)) + (Limb(x, n + q + 1) % Pow2(s)) * Pow2(8 - s)

\* Limb n of x << (8 * q + s): the low bits of limb n - q, over the high s
\* bits of the limb below it.
ShlLimb(x, n, q, s) ==
    ((Limb(x, n - q) * Pow2(s)) % 256) + (Limb(x, n - q - 1) \div Pow2(8 - s))

\* x >> k, 0 <= k < 64
Shr64(x, k) ==
    <<ShrLimb(x, 1, k \div 8, k % 8), ShrLimb(x, 2, k \div 8, k % 8),
      ShrLimb(x, 3, k \div 8, k % 8), ShrLimb(x, 4, k \div 8, k % 8),
      ShrLimb(x, 5, k \div 8, k % 8), ShrLimb(x, 6, k \div 8, k % 8),
      ShrLimb(x, 7, k \div 8, k % 8), ShrLimb(x, 8, k \div 8, k % 8)>>

\* x << k, 0 <= k < 64
Shl64(x, k) ==
    <<ShlLimb(x, 1, k \div 8, k % 8), ShlLimb(x, 2, k \div 8, k % 8),
      ShlLimb(x, 3, k \div 8, k % 8), ShlLimb(x, 4, k \div 8, k % 8),
      ShlLimb(x, 5, k \div 8, k % 8), ShlLimb(x, 6, k \div 8, k % 8),
      ShlLimb(x, 7, k \div 8, k % 8), ShlLimb(x, 8, k \div 8, k % 8)>>

(***************************************************************************)
(* The fingerprint.                                                        *)
(***************************************************************************)
\* 0x9e3779b97f4a7c15
Golden == FromHex(158, 55, 121, 185, 127, 74, 124, 21)

\* 0xbf58476d1ce4e5b9
MixA == FromHex(191, 88, 71, 109, 28, 228, 229, 185)

\* 0x94d049bb133111eb
MixB == FromHex(148, 208, 73, 187, 19, 49, 17, 235)

\* 0x243f6a8885a308d3
HashSeed == FromHex(36, 63, 106, 136, 133, 163, 8, 211)

\* x += G;  x = (x ^ (x >> 30)) * A;  x = (x ^ (x >> 27)) * B;
\* return x ^ (x >> 31);
splitmix64(x) ==
    LET x1 == Add64(x, Golden)
        x2 == Mul64(Xor64(x1, Shr64(x1, 30)), MixA)
        x3 == Mul64(Xor64(x2, Shr64(x2, 27)), MixB)
    IN  Xor64(x3, Shr64(x3, 31))

\* The value of h after hash_combine(h, k):
\* k = splitmix64(k);  h ^= k + G + (h << 6) + (h >> 2);
hash_combine(h, k) ==
    LET k1 == splitmix64(k)
    IN  Xor64(h, Add64(Add64(Add64(k1, Golden), Shl64(h, 6)), Shr64(h, 2)))

\* The bit the scan loop sets for flat index idx: 1 when idx is a cell of
\* the board and the cell is non-zero (if (board[idx]) word |= 1 << bitpos).
CellBit(board, idx, n) == IF idx < n /\ board[idx] # 0 THEN 1 ELSE 0

\* Eight consecutive bits of word, for the cells from flat index b on.
PackByte(board, b, n) ==
    CellBit(board, b, n) + 2 * CellBit(board, b + 1, n)
    + 4 * CellBit(board, b + 2, n) + 8 * CellBit(board, b + 3, n)
    + 16 * CellBit(board, b + 4, n) + 32 * CellBit(board, b + 5, n)
    + 64 * CellBit(board, b + 6, n) + 128 * CellBit(board, b + 7, n)

\* word when the scan loop combines it for the w-th time (w from 0): bit
\* bitpos is the cell at flat index 64 * w + bitpos; a last partial word
\* keeps zero bits past the end of the board.
PackWord(board, w, n) ==
    <<PackByte(board, 64 * w, n),      PackByte(board, 64 * w + 8, n),
      PackByte(board, 64 * w + 16, n), PackByte(board, 64 * w + 24, n),
      PackByte(board, 64 * w + 32, n), PackByte(board, 64 * w + 40, n),
      PackByte(board, 64 * w + 48, n), PackByte(board, 64 * w + 56, n)>>

RECURSIVE HashScan(_, _, _, _)
\* The scan loop of hashState from word w on, with the loop's h: one
\* combine per full word of 64 cells (bitpos reaching 64 inside the loop),
\* and after the loop one for a partial word (bitpos != 0).
HashScan(h, board, w, n) ==
    IF 64 * w >= n THEN h
    ELSE HashScan(hash_combine(h, PackWord(board, w, n)), board, w + 1, n)

\* ShapeHash combining the number of cells in place of rows and then cols.
ShapeHashOfSize(rows, cols) == hash_combine(HashSeed, FromInt(rows * cols))

\* h after  h = 0x243f6a8885a308d3; hash_combine(h, rows);
\* hash_combine(h, cols);
ShapeHash(rows, cols) ==
    hash_combine(hash_combine(HashSeed, FromInt(rows)), FromInt(cols))

\* ShapeHash for the shapes within the bounds, evaluated once.
ShapeHashTable ==
    [r \in 1..MaxRows |-> [c \in 1..MaxCols |-> ShapeHash(r, c)]]

\* ShapeHash(rows, cols), looked up where the table holds it.
ShapeHashOf(rows, cols) ==
    IF rows \in 1..MaxRows /\ cols \in 1..MaxCols
    THEN ShapeHashTable[rows][cols]
    ELSE ShapeHash(rows, cols)

\* _baseHash with cols combined before rows.
BaseHashColsFirst(rows, cols) == ShapeHashOf(cols, rows)

\* _baseHash as init computes it (optimized variant).
BaseHash(rows, cols) == ShapeHashOf(rows, cols)

\* hashState of the optimized variant: starts from the cached _baseHash and
\* scans _grid.size() cells.
hashStateOptimized(base, grid, n) == HashScan(base, grid, 0, n)

\* hashState of the pointer variant: the nested i, j loops visit
\* _cell[i][j] in row-major order, which is flat index i * cols + j.
hashStatePointer(rows, cols, board) ==
    HashScan(ShapeHashOf(rows, cols), board, 0, rows * cols)

\* hashStateFlat with the combine of the trailing partial word lost: only
\* the words the loop fills are combined.
hashStateFlatFullWords(rows, cols, board, n) ==
    HashScan(ShapeHashOf(rows, cols), board, 0, 64 * (n \div 64))

\* hashState of the flat variant: scans _cell.size() cells.
hashStateFlat(rows, cols, board, n) ==
    HashScan(ShapeHashOf(rows, cols), board, 0, n)

(***************************************************************************)
(* The transition.                                                         *)
(***************************************************************************)
\* The pairs of _neighborOffset (pointer variant) in the order of the
\* source; dx[d], dy[d] of the flat variant are the same pairs.
NeighborOffset ==
    << <<-1, -1>>, <<0, -1>>, <<1, -1>>,
       <<-1,  0>>,            <<1,  0>>,
       <<-1,  1>>, <<0,  1>>, <<1,  1>> >>

dx == <<-1, 0, 1, -1, 1, -1, 0, 1>>

dy == <<-1, -1, -1, 0, 0, 1, 1, 1>>

\* WrapOnce holding an index that leaves the grid at the edge it left by.
WrapOnceClamped(n, size) ==
    IF n < 0 THEN 0
    ELSE IF n >= size THEN size - 1
    ELSE n

\* if (n < 0) n += size; else if (n >= size) n -= size;
WrapOnce(n, size) ==
    IF n < 0 THEN n + size
    ELSE IF n >= size THEN n - size
    ELSE n

RECURSIVE CountPointer(_, _, _, _, _, _)
\* count after the offsets k..8 have been added (pointer variant).
CountPointer(rows, cols, board, i, j, k) ==
    IF k > 8 THEN 0
    ELSE LET ni == WrapOnce(i + NeighborOffset[k][1], rows)
             nj == WrapOnce(j + NeighborOffset[k][2], cols)
         IN  (IF board[ni * cols + nj] # 0 THEN 1 ELSE 0)
             + CountPointer(rows, cols, board, i, j, k + 1)

\* _nextCycle[i][j] as step writes it (pointer variant).
NextCellPointer(rows, cols, board, i, j) ==
    LET count == CountPointer(rows, cols, board, i, j, 1)
    IN  IF (count = 3) \/ (board[i * cols + j] # 0 /\ count = 2)
        THEN 1 ELSE 0

RECURSIVE stepPointerFrom(_, _, _, _, _)
\* The cells step's loops write at the row-major positions idx..last
\* (pointer variant), each computed from the current board alone; the range
\* is halved so that the evaluation stays shallow on long boards.
stepPointerFrom(rows, cols, board, idx, last) ==
    IF idx = last
    THEN idx :> NextCellPointer(rows, cols, board, idx \div cols, idx % cols)
    ELSE stepPointerFrom(rows, cols, board, idx, (idx + last) \div 2)
         @@ stepPointerFrom(rows, cols, board, (idx + last) \div 2 + 1, last)

\* The next buffer after step's loops (pointer variant).
stepPointer(rows, cols, board) ==
    stepPointerFrom(rows, cols, board, 0, rows * cols - 1)

\* CountFlat counting every neighbouring cell once, however many of the
\* directions d..7 lead to it.
CountFlatDistinct(rows, cols, board, i, j, d) ==
    Cardinality({q \in {WrapOnce(i + dx[e + 1], rows) * cols
                        + WrapOnce(j + dy[e + 1], cols) : e \in d..7} :
                    board[q] # 0})

RECURSIVE CountFlat(_, _, _, _, _, _)
\* count after the directions d..7 have been added (flat variant; d is
\* 0-based as in the source, dx and dy are 1-based tuples).
CountFlat(rows, cols, board, i, j, d) ==
    IF d >= 8 THEN 0
    ELSE LET ni == WrapOnce(i + dx[d + 1], rows)
             nj == WrapOnce(j + dy[d + 1], cols)
         IN  (IF board[ni * cols + nj] # 0 THEN 1 ELSE 0)
             + CountFlat(rows, cols, board, i, j, d + 1)

\* NextCellFlat with the cell itself counted among its neighbours.
NextCellFlatCountsSelf(rows, cols, board, i, j) ==
    LET idx   == i * cols + j
        count == CountFlat(rows, cols, board, i, j, 0)
                 + (IF board[idx] # 0 THEN 1 ELSE 0)
    IN  IF (count = 3) \/ (board[idx] # 0 /\ count = 2) THEN 1 ELSE 0

\* _nextCycle[idx] as step writes it (flat variant).
NextCellFlat(rows, cols, board, i, j) ==
    LET count == CountFlat(rows, cols, board, i, j, 0)
        idx   == i * cols + j
    IN  IF (count = 3) \/ (board[idx] # 0 /\ count = 2) THEN 1 ELSE 0

RECURSIVE stepFlatFrom(_, _, _, _, _)
\* The cells step's loops write at the row-major positions idx..last (flat
\* variant), each computed from the current board alone; the range is
\* halved so that the evaluation stays shallow on long boards.
stepFlatFrom(rows, cols, board, idx, last) ==
    IF idx = last
    THEN idx :> NextCellFlat(rows, cols, board, idx \div cols, idx % cols)
    ELSE stepFlatFrom(rows, cols, board, idx, (idx + last) \div 2)
         @@ stepFlatFrom(rows, cols, board, (idx + last) \div 2 + 1, last)

\* The next buffer after step's loops (flat variant).
stepFlat(rows, cols, board) ==
    stepFlatFrom(rows, cols, board, 0, rows * cols - 1)

\* An index table that stops at the edge instead of wrapping.
PrevTableClamped(size) ==
    [i \in 0..(size - 1) |-> IF i = 0 THEN 0 ELSE i - 1]

\* The index tables init builds (optimized variant).
PrevTable(size) == [i \in 0..(size - 1) |-> (i + size - 1) % size]

NextTable(size) == [i \in 0..(size - 1) |-> (i + 1) % size]

\* NextCellOptimized with a birth on two alive neighbours as well.
NextCellOptimizedBirthOnTwo(cols, g, pR, nR, pC, nC, i, j) ==
    LET base0 == pR[i] * cols
        base1 == i * cols
        base2 == nR[i] * cols
        count == g[base0 + pC[j]] + g[base0 + j] + g[base0 + nC[j]]
                 + g[base1 + pC[j]] + g[base1 + nC[j]]
                 + g[base2 + pC[j]] + g[base2 + j] + g[base2 + nC[j]]
    IN  IF (count = 3) \/ (count = 2) THEN 1 ELSE 0

\* n[base1 + j1] as step writes it (optimized variant), from the tables.
NextCellOptimized(cols, g, pR, nR, pC, nC, i, j) ==
    LET base0 == pR[i] * cols
        base1 == i * cols
        base2 == nR[i] * cols
        j0    == pC[j]
        j1    == j
        j2    == nC[j]
        count == g[base0 + j0] + g[base0 + j1] + g[base0 + j2]
                 + g[base1 + j0] + g[base1 + j2]
                 + g[base2 + j0] + g[base2 + j1] + g[base2 + j2]
        alive == g[base1 + j1]
    IN  IF (count = 3) \/ (alive # 0 /\ count = 2) THEN 1 ELSE 0

RECURSIVE stepOptimizedFrom(_, _, _, _, _, _, _, _)
\* The cells step's loops write at the row-major positions idx..last
\* (optimized variant), each computed from the current grid alone; the
\* range is halved so that the evaluation stays shallow on long boards.
stepOptimizedFrom(cols, g, pR, nR, pC, nC, idx, last) ==
    IF idx = last
    THEN idx :> NextCellOptimized(cols, g, pR, nR, pC, nC,
                                  idx \div cols, idx % cols)
    ELSE stepOptimizedFrom(cols, g, pR, nR, pC, nC, idx, (idx + last) \div 2)
         @@ stepOptimizedFrom(cols, g, pR, nR, pC, nC,
                              (idx + last) \div 2 + 1, last)

\* The next buffer after step's loops, before the swap (optimized variant).
stepOptimized(rows, cols, g, pR, nR, pC, nC) ==
    stepOptimizedFrom(cols, g, pR, nR, pC, nC, 0, rows * cols - 1)

(***************************************************************************)
(* step() cell by cell.  `store` holds the two buffers under their names;  *)
(* cur names the one step reads (_cell, g) and nxt the one it writes       *)
(* (_nextCycle, n).                                                        *)
(***************************************************************************)
\* The value step computes for cell idx (flat variant): the count loop and
\* the rule, reading _cell.
LoadCellFlat(store, cur, rows, cols, idx) ==
    NextCellFlat(rows, cols, store[cur], idx \div cols, idx % cols)

\* The value step computes for cell idx (optimized variant), reading g.
LoadCellOptimized(store, cur, cols, pR, nR, pC, nC, idx) ==
    NextCellOptimized(cols, store[cur], pR, nR, pC, nC,
                      idx \div cols, idx % cols)

\* _nextCycle[idx] = v;   n[base1 + j1] = v;
StoreCell(store, nxt, idx, v) == [store EXCEPT ![nxt][idx] = v]

\* The body of step's inner loop writing over the buffer it reads.
WriteCellFlatInPlace(store, cur, nxt, rows, cols, idx) ==
    StoreCell(store, cur, idx, LoadCellFlat(store, cur, rows, cols, idx))

\* The body of step's inner loop for cell idx (flat variant).
WriteCellFlat(store, cur, nxt, rows, cols, idx) ==
    StoreCell(store, nxt, idx, LoadCellFlat(store, cur, rows, cols, idx))

\* The body of step's inner loop for cell idx (optimized variant).
WriteCellOptimized(store, cur, nxt, cols, pR, nR, pC, nC, idx) ==
    StoreCell(store, nxt, idx,
              LoadCellOptimized(store, cur, cols, pR, nR, pC, nC, idx))

RECURSIVE PassFlat(_, _, _, _, _, _)
\* The buffers after step's loops have run their first k bodies, in
\* row-major order (flat variant).
PassFlat(store, cur, nxt, rows, cols, k) ==
    IF k = 0 THEN store
    ELSE WriteCellFlat(PassFlat(store, cur, nxt, rows, cols, k - 1),
                       cur, nxt, rows, cols, k - 1)

RECURSIVE PassOptimized(_, _, _, _, _, _, _, _, _)
\* The buffers after step's loops have run their first k bodies, in
\* row-major order (optimized variant).
PassOptimized(store, cur, nxt, cols, pR, nR, pC, nC, k) ==
    IF k = 0 THEN store
    ELSE WriteCellOptimized(
             PassOptimized(store, cur, nxt, cols, pR, nR, pC, nC, k - 1),
             cur, nxt, cols, pR, nR, pC, nC, k - 1)

(***************************************************************************)
(* The cell bodies of one step run by workers, one per cell, in any        *)
(* interleaving.  A body is two events: it computes the cell's value from  *)
(* g into a local (count, alive and the rule), and it assigns the local to *)
(* n[base1 + j1].  A pass in progress is the buffers under their names     *)
(* cur and nxt, the worker's local of each cell (-1 before the cell is     *)
(* computed) and the set of cells assigned.                                *)
(***************************************************************************)
PassStart(store, cur, nxt, n) ==
    [store  |-> store,
     cur    |-> cur,
     nxt    |-> nxt,
     regs   |-> [c \in 0..(n - 1) |-> -1],
     stored |-> {}]

\* count, alive and the rule for cell c, kept in the worker's local.
WorkerLoad(st, cols, pR, nR, pC, nC, c) ==
    [st EXCEPT !.regs[c] =
        LoadCellOptimized(st.store, st.cur, cols, pR, nR, pC, nC, c)]

\* The assignment of the local writing over the buffer the workers read.
WorkerStoreInPlace(st, c) ==
    [st EXCEPT !.store  = StoreCell(@, st.cur, c, st.regs[c]),
               !.stored = @ \cup {c}]

\* n[base1 + j1] = the local of cell c.
WorkerStore(st, c) ==
    [st EXCEPT !.store  = StoreCell(@, st.nxt, c, st.regs[c]),
               !.stored = @ \cup {c}]

\* The passes one more event of some worker makes of pass st.
WorkerSteps(st, cols, pR, nR, pC, nC) ==
    LET cells  == DOMAIN st.regs
        loaded == {c \in cells : st.regs[c] # -1}
    IN  {WorkerLoad(st, cols, pR, nR, pC, nC, c) : c \in cells \ loaded}
        \cup {WorkerStore(st, c) : c \in loaded \ st.stored}

RECURSIVE ParallelPass(_, _, _, _, _, _, _)
\* The passes k more events make of the passes in `passes`, over every
\* choice of the worker that moves.
ParallelPass(passes, cols, pR, nR, pC, nC, k) ==
    IF k = 0 THEN passes
    ELSE ParallelPass(
             UNION {WorkerSteps(st, cols, pR, nR, pC, nC) : st \in passes},
             cols, pR, nR, pC, nC, k - 1)

\* for (bool cell : _cell) if (cell) return false; return true;
isEmptyBoard(board) == \A idx \in DOMAIN board : board[idx] = 0

(***************************************************************************)
(* The program state.                                                      *)
(***************************************************************************)
VARIABLES
    variant,      \* which of the three programs of src/gol.cpp runs
    optRows,      \* Option::rows   as parsed from the command line
    optCols,      \* Option::cols
    optSteps,     \* Option::steps
    finalOnly,    \* --final-only
    detectCycle,  \* --detect-cycle
    pc,           \* "main", "start", "loop", "done" or "rejected"
    exitStatus,   \* "none" while running, then 0, 1 or "abort"
    row,          \* _row
    col,          \* _col
    steps,        \* _steps (the argument steps of run in the optimized variant)
    buf,          \* the two cell buffers the object owns, by buffer
    cellBuf,      \* the buffer _cell (_grid) refers to
    nextBuf,      \* the buffer _nextCycle (_next) refers to
    prevR,        \* _prevR, _nextR, _prevC, _nextC (optimized variant)
    nextR,
    prevC,
    nextC,
    baseHash,     \* _baseHash (optimized variant)
    history,      \* _history
    i,            \* the loop counter: i of start, t of run
    boardEmpty,   \* the locals of start (flat variant)
    boardStatic,
    out,          \* what the object has written to standard output
    cell0,        \* history variable: the board initBoard / init drew
    transitions   \* history variable: completed calls of step (and update)

vars ==
    <<variant, optRows, optCols, optSteps, finalOnly, detectCycle, pc,
      exitStatus, row, col, steps, buf, cellBuf, nextBuf, prevR, nextR, prevC,
      nextC, baseHash, history, i, boardEmpty, boardStatic, out, cell0,
      transitions>>

options == <<variant, optRows, optCols, optSteps, finalOnly, detectCycle>>

tables == <<prevR, nextR, prevC, nextC, baseHash>>

Variants == {"pointer", "optimized", "flat"}

Buffers == {"bufA", "bufB"}

\* The contents of the current and of the next buffer.
Cell == buf[cellBuf]

NextCycle == buf[nextBuf]

\* All boards of n cells.
Boards(n) == [0..(n - 1) -> {0, 1}]

\* A buffer of n cells that new bool[col] left uninitialised (pointer
\* variant): the program never reads it before step has written each cell.
Uninitialised(n) == [idx \in 0..(n - 1) |-> -1]

\* A buffer of n cells that assign(N, 0) or resize(N) filled with 0.
Zeroed(n) == [idx \in 0..(n - 1) |-> 0]

(***************************************************************************)
(* Standard output: the lines of display() are one "board" entry; a header *)
(* line "Cycle: n" or "Final cycle: n" and a stop notice are entries of    *)
(* their own.  n is -1 where the line carries no number.                   *)
(***************************************************************************)
Header(n) == [kind |-> "Cycle", n |-> n, board |-> <<>>]

FinalHeader(n) == [kind |-> "Final cycle", n |-> n, board |-> <<>>]

Notice(text, n) == [kind |-> text, n |-> n, board |-> <<>>]

\* display(): rows lines of cols characters and an empty line.
display(o, board) == Append(o, [kind |-> "board", n |-> -1, board |-> board])

\* Frame with the header one generation late.
FrameLabelOff(o, n, board) == display(Append(o, Header(n + 1)), board)

\* std::cout << "Cycle: " << n; display();
Frame(o, n, board) == display(Append(o, Header(n)), board)

Init ==
    /\ variant \in Variants
    /\ optRows \in 0..MaxRows
    /\ optCols \in 0..MaxCols
    /\ optRows * optCols <= MaxCells
    /\ optSteps \in -1..MaxSteps
    /\ finalOnly \in BOOLEAN
    /\ detectCycle \in BOOLEAN
    /\ pc = "main"
    /\ exitStatus = "none"
    /\ row = 0
    /\ col = 0
    /\ steps = 0
    /\ buf = [b \in Buffers |-> <<>>]
    /\ cellBuf = "bufA"
    /\ nextBuf = "bufB"
    /\ prevR = <<>>
    /\ nextR = <<>>
    /\ prevC = <<>>
    /\ nextC = <<>>
    /\ baseHash = U64Zero
    /\ history = {}
    /\ i = 0
    /\ boardEmpty = FALSE
    /\ boardStatic = FALSE
    /\ out = <<>>
    /\ cell0 = <<>>
    /\ transitions = 0

\* Reject going on to start() with the status set.
RejectIgnored(status) ==
    /\ pc' = "start"
    /\ exitStatus' = status
    /\ UNCHANGED <<options, row, col, steps, buf, cellBuf, nextBuf, tables,
                   history, i, boardEmpty, boardStatic, out, cell0,
                   transitions>>

\* The process ends before any GameOfLife method has run.
Reject(status) ==
    /\ pc' = "rejected"
    /\ exitStatus' = status
    /\ UNCHANGED <<options, row, col, steps, buf, cellBuf, nextBuf, tables,
                   history, i, boardEmpty, boardStatic, out, cell0,
                   transitions>>

\* The fields initBoard / init set, with the board b the random source drew
\* and the next buffer as the allocation leaves it.
Construct(b, fresh) ==
    /\ pc' = "start"
    /\ row' = optRows
    /\ col' = optCols
    /\ steps' = optSteps
    /\ buf' = [buf EXCEPT ![cellBuf] = b, ![nextBuf] = fresh]
    /\ cell0' = b
    /\ UNCHANGED <<options, exitStatus, cellBuf, nextBuf, i, boardEmpty,
                   boardStatic, out, transitions>>

\* main and initBoard of the pointer variant: Option::get reports a bad
\* value and goes on, initBoard throws, nothing catches it.
PointerMain ==
    /\ pc = "main"
    /\ variant = "pointer"
    /\ IF optRows <= 0 \/ optCols <= 0 \/ optSteps <= 0
       THEN Reject("abort")
       ELSE \E b \in Boards(optRows * optCols) :
                /\ Construct(b, Uninitialised(optRows * optCols))
                /\ UNCHANGED <<tables, history>>

\* main, parse_options and init of the optimized variant.
OptimizedMain ==
    /\ pc = "main"
    /\ variant = "optimized"
    /\ IF optSteps < 0 \/ optRows <= 0 \/ optCols <= 0
       THEN Reject(1)
       ELSE \E b \in Boards(optRows * optCols) :
                /\ Construct(b, Zeroed(optRows * optCols))
                /\ prevR' = PrevTable(optRows)
                /\ nextR' = NextTable(optRows)
                /\ prevC' = PrevTable(optCols)
                /\ nextC' = NextTable(optCols)
                /\ baseHash' = BaseHash(optRows, optCols)
                /\ history' = IF detectCycle THEN {} ELSE history

\* main, Option::get and initBoard of the flat variant.
FlatMain ==
    /\ pc = "main"
    /\ variant = "flat"
    /\ IF optSteps <= 0 \/ optRows <= 0 \/ optCols <= 0
       THEN Reject(1)
       ELSE \E b \in Boards(optRows * optCols) :
                /\ Construct(b, Zeroed(optRows * optCols))
                /\ UNCHANGED <<tables, history>>

(***************************************************************************)
(* step and update: the pass writes every cell of the next buffer, then    *)
(* the two names exchange their buffers.                                   *)
(***************************************************************************)
\* StepAndSwap with the exchange done without the temporary: both names
\* end on the buffer the pass wrote.
StepAndSwapNoTemp(nb) ==
    /\ buf' = [buf EXCEPT ![nextBuf] = nb]
    /\ cellBuf' = nextBuf
    /\ nextBuf' = nextBuf
    /\ transitions' = transitions + 1

\* step() followed by update() (pointer and flat variants), or step() with
\* its trailing _grid.swap(_next) (optimized variant); nb is the next
\* buffer as the pass wrote it.
StepAndSwap(nb) ==
    /\ buf' = [buf EXCEPT ![nextBuf] = nb]
    /\ cellBuf' = nextBuf
    /\ nextBuf' = cellBuf
    /\ transitions' = transitions + 1

NoStep == UNCHANGED <<buf, cellBuf, nextBuf, transitions>>

\* Return staying in the loop: the stop does not leave it.
ReturnStaysInLoop ==
    /\ pc' = "loop"
    /\ exitStatus' = 0

\* Leaving start / run: main returns 0.
Return ==
    /\ pc' = "done"
    /\ exitStatus' = 0

config == <<options, row, col, steps, tables, cell0>>

(***************************************************************************)
(* The conditions and the output of the loop bodies.                       *)
(***************************************************************************)
\* for (int i = 0; i < _steps; i++)   (pointer variant)
PointerLoops(k, n) == k < n

\* for (int t = 1; t <= steps; ++t)   (optimized variant)
OptimizedLoops(t, n) == t <= n

\* FlatLoops running one pass past the requested count.
FlatLoopsOnePastEnd(k, n) == k <= n

\* for (int i = 0; i < _steps; i++)   (flat variant)
FlatLoops(k, n) == k < n

\* PointerRenders comparing the counter with _steps, not _steps - 1.
PointerRendersOffByOne(final, k, n) == ~final \/ k = n

\* if (!_finalOnly || i == (_steps - 1))   (pointer variant)
PointerRenders(final, k, n) == ~final \/ k = n - 1

\* if (!_finalOnly || i == (_steps - 1))   (flat variant)
FlatRenders(final, k, n) == ~final \/ k = n - 1

\* Insert with the test of _detectCycle lost.
InsertAlways(hist, detect, s) == hist \cup {s}

\* if (_detectCycle) { ... _history.insert(s); }
Insert(hist, detect, s) == IF detect THEN hist \cup {s} ELSE hist

\* StaticStop with the negation of _detectCycle lost.
StaticStopWhenDetecting(detect, prevHash, currHash, static) ==
    detect /\ prevHash = currHash /\ ~static

\* if (!_detectCycle && prevHash == currHash) if (!boardStatic)
StaticStop(detect, prevHash, currHash, static) ==
    ~detect /\ prevHash = currHash /\ ~static

\* EmptyStop looking at the fingerprint only.
EmptyStopOnHashOnly(currHash, board) == currHash = U64Zero

\* if (currHash == 0 || isEmptyBoard())
EmptyStop(currHash, board) == currHash = U64Zero \/ isEmptyBoard(board)

\* FlatStopOut without leaving the loop before its last lines: the frame
\* of the last requested generation is written a second time.
FlatStopOutFallsThrough(o, text, n, final, board) ==
    LET o1 == Append(o, Notice(text, n))
        o2 == IF final THEN Frame(o1, n, board) ELSE o1
    IN  IF final THEN Frame(o2, n, board) ELSE o2

\* The output of a static or empty stop of the flat variant: the notice,
\* and in final-only mode the frame of the board that stopped the run.
FlatStopOut(o, text, n, final, board) ==
    LET o1 == Append(o, Notice(text, n))
    IN  IF final THEN Frame(o1, n, board) ELSE o1

\* OptimizedCycleOut writing a header line before the board.
OptimizedCycleOutWithHeader(o, t, final, board) ==
    LET o1 == Append(o, Notice("Cycle detected", t))
    IN  IF final THEN Frame(o1, t, board) ELSE o1

\* The output of a cycle stop of the optimized variant: the notice, and in
\* final-only mode the board (display() alone, no header line).
OptimizedCycleOut(o, t, final, board) ==
    LET o1 == Append(o, Notice("Cycle detected", t))
    IN  IF final THEN display(o1, board) ELSE o1

(***************************************************************************)
(* start() of the pointer variant.                                         *)
(***************************************************************************)
\* The lines before the loop.
PointerStart ==
    /\ pc = "start"
    /\ variant = "pointer"
    /\ out' = IF ~finalOnly THEN Frame(out, 0, Cell) ELSE out
    /\ i' = 0
    /\ pc' = "loop"
    /\ NoStep
    /\ UNCHANGED <<config, exitStatus, history, boardEmpty, boardStatic>>

\* One pass through the loop body.
PointerIterate ==
    /\ pc = "loop"
    /\ variant = "pointer"
    /\ PointerLoops(i, steps)
    /\ LET s == hashStatePointer(row, col, Cell)
       IN  IF detectCycle /\ s \in history
           THEN /\ out' = Append(out, Notice("Cycle detected", -1))
                /\ Return
                /\ NoStep
                /\ UNCHANGED <<history, i>>
           ELSE \E nb \in {stepPointer(row, col, Cell)} :
                /\ history' = Insert(history, detectCycle, s)
                /\ StepAndSwap(nb)
                /\ out' = IF PointerRenders(finalOnly, i, steps)
                          THEN Frame(out, i + 1, nb)
                          ELSE out
                /\ i' = i + 1
                /\ UNCHANGED <<pc, exitStatus>>
    /\ UNCHANGED <<config, boardEmpty, boardStatic>>

\* The loop condition fails: start returns.
PointerFinish ==
    /\ pc = "loop"
    /\ variant = "pointer"
    /\ ~PointerLoops(i, steps)
    /\ Return
    /\ NoStep
    /\ UNCHANGED <<config, history, i, boardEmpty, boardStatic, out>>

(***************************************************************************)
(* run() of the optimized variant.                                         *)
(***************************************************************************)
\* The lines before the loop; t starts at 1.
OptimizedStart ==
    /\ pc = "start"
    /\ variant = "optimized"
    /\ out' = IF ~finalOnly THEN Frame(out, 0, Cell) ELSE out
    /\ history' = Insert(history, detectCycle,
                         hashStateOptimized(baseHash, Cell, row * col))
    /\ i' = 1
    /\ pc' = "loop"
    /\ NoStep
    /\ UNCHANGED <<config, exitStatus, boardEmpty, boardStatic>>

\* One pass through the loop body.
OptimizedIterate ==
    /\ pc = "loop"
    /\ variant = "optimized"
    /\ OptimizedLoops(i, steps)
    /\ \E nb \in {stepOptimized(row, col, Cell, prevR, nextR, prevC, nextC)} :
       LET s  == hashStateOptimized(baseHash, nb, row * col)
           inserted == s \notin history
       IN  /\ StepAndSwap(nb)
           /\ history' = Insert(history, detectCycle, s)
           /\ IF detectCycle /\ ~inserted
              THEN /\ out' = OptimizedCycleOut(out, i, finalOnly, nb)
                   /\ Return
                   /\ UNCHANGED i
              ELSE /\ out' = IF ~finalOnly THEN Frame(out, i, nb) ELSE out
                   /\ i' = i + 1
                   /\ UNCHANGED <<pc, exitStatus>>
    /\ UNCHANGED <<config, boardEmpty, boardStatic>>

\* The loop condition fails: the lines after the loop, then run returns.
OptimizedFinish ==
    /\ pc = "loop"
    /\ variant = "optimized"
    /\ ~OptimizedLoops(i, steps)
    /\ out' = IF finalOnly
              THEN display(Append(out, FinalHeader(steps)), Cell)
              ELSE out
    /\ Return
    /\ NoStep
    /\ UNCHANGED <<config, history, i, boardEmpty, boardStatic>>

(***************************************************************************)
(* start() of the flat variant.                                            *)
(***************************************************************************)
\* The lines before the loop.
FlatStart ==
    /\ pc = "start"
    /\ variant = "flat"
    /\ out' = IF ~finalOnly THEN Frame(out, 0, Cell) ELSE out
    /\ boardEmpty' = FALSE
    /\ boardStatic' = FALSE
    /\ i' = 0
    /\ pc' = "loop"
    /\ NoStep
    /\ UNCHANGED <<config, exitStatus, history>>

\* One pass through the loop body.
FlatIterate ==
    /\ pc = "loop"
    /\ variant = "flat"
    /\ FlatLoops(i, steps)
    /\ LET hash == hashStateFlat(row, col, Cell, row * col)
       IN  IF detectCycle /\ hash \in history
           THEN /\ out' = Append(out, Notice("Cycle detected", i))
                /\ Return
                /\ NoStep
                /\ UNCHANGED <<history, i, boardEmpty, boardStatic>>
           ELSE \E prevHash \in {hashStateFlat(row, col, Cell, row * col)},
                   nb \in {stepFlat(row, col, Cell)} :
                \E currHash \in {hashStateFlat(row, col, nb, row * col)} :
                /\ history' = Insert(history, detectCycle, hash)
                /\ StepAndSwap(nb)
                /\ IF StaticStop(detectCycle, prevHash, currHash, boardStatic)
                   THEN /\ boardStatic' = TRUE
                        /\ out' = FlatStopOut(out, "Board became static",
                                              i + 1, finalOnly, nb)
                        /\ Return
                        /\ UNCHANGED <<i, boardEmpty>>
                   ELSE IF EmptyStop(currHash, nb)
                   THEN /\ boardEmpty' = TRUE
                        /\ out' = FlatStopOut(out, "Board became empty",
                                              i + 1, finalOnly, nb)
                        /\ Return
                        /\ UNCHANGED <<i, boardStatic>>
                   ELSE /\ out' = IF FlatRenders(finalOnly, i, steps)
                                  THEN Frame(out, i + 1, nb)
                                  ELSE out
                        /\ i' = i + 1
                        /\ UNCHANGED <<pc, exitStatus, boardEmpty, boardStatic>>
    /\ UNCHANGED config

\* The loop condition fails: start returns.
FlatFinish ==
    /\ pc = "loop"
    /\ variant = "flat"
    /\ ~FlatLoops(i, steps)
    /\ Return
    /\ NoStep
    /\ UNCHANGED <<config, history, i, boardEmpty, boardStatic, out>>

Next ==
    \/ PointerMain
    \/ OptimizedMain
    \/ FlatMain
    \/ PointerStart
    \/ PointerIterate
    \/ PointerFinish
    \/ OptimizedStart
    \/ OptimizedIterate
    \/ OptimizedFinish
    \/ FlatStart
    \/ FlatIterate
    \/ FlatFinish

Spec == Init /\ [][Next]_vars

(***************************************************************************)
(* What the properties below speak of.                                     *)
(***************************************************************************)
\* The number of alive cells among the eight toroidal neighbours of (r, c),
\* a neighbour position counted once for each of the eight offsets.
AliveNeighbours(rows, cols, board, r, c) ==
    LET Offsets == {<<dr, dc>> \in {-1, 0, 1} \X {-1, 0, 1} : <<dr, dc>> # <<0, 0>>}
    IN  Cardinality({o \in Offsets :
            board[((r + o[1] + rows) % rows) * cols
                  + ((c + o[2] + cols) % cols)] = 1})

\* The birth-3 / survive-2-or-3 rule applied to every cell of a board.
LifeCell(rows, cols, board, idx) ==
    LET k == AliveNeighbours(rows, cols, board, idx \div cols, idx % cols)
    IN  IF k = 3 \/ (board[idx] = 1 /\ k = 2) THEN 1 ELSE 0

RECURSIVE LifeRuleFrom(_, _, _, _)
LifeRuleFrom(rows, cols, board, idx) ==
    IF idx = rows * cols - 1 THEN idx :> LifeCell(rows, cols, board, idx)
    ELSE (idx :> LifeCell(rows, cols, board, idx))
         @@ LifeRuleFrom(rows, cols, board, idx + 1)

LifeRule(rows, cols, board) == LifeRuleFrom(rows, cols, board, 0)

RECURSIVE Generation(_)
\* The board n applications of the rule make of the initial board.
Generation(n) ==
    IF n = 0 THEN cell0 ELSE LifeRule(row, col, Generation(n - 1))

\* The fingerprint of a board of the run's shape.
Fingerprint(board) == hashStateFlat(row, col, board, row * col)

HasNotice(text) == \E k \in 1..Len(out) : out[k].kind = text

\* The terminal state of the run, read from its stop notice.
Reason ==
    IF pc = "rejected" THEN "Rejected"
    ELSE IF pc # "done" THEN "Running"
    ELSE IF HasNotice("Cycle detected") THEN "StoppedByCycle"
    ELSE IF HasNotice("Board became static") THEN "StoppedStatic"
    ELSE IF HasNotice("Board became empty") THEN "StoppedEmpty"
    ELSE "Completed"

IsHeader(e) == e.kind \in {"Cycle", "Final cycle"}

\* The board frames written so far, in order: each with the number of the
\* header line right before it (-1 when there is none) and its board.
RECURSIVE FramesFrom(_)
FramesFrom(k) ==
    IF k > Len(out) THEN <<>>
    ELSE IF out[k].kind = "board"
         THEN << [label |-> IF k > 1 /\ IsHeader(out[k - 1])
                            THEN out[k - 1].n ELSE -1,
                  board |-> out[k].board] >> \o FramesFrom(k + 1)
         ELSE FramesFrom(k + 1)

Frames == FramesFrom(1)

\* The stop notices written so far.
Notices == SelectSeq(out, LAMBDA e : e.kind # "board" /\ ~IsHeader(e))

\* The run has been constructed and is past the lines before its loop.
Started == pc \in {"loop", "done"}

(***************************************************************************)
(* C1: after one step every cell of the new current board is alive exactly *)
(* when its eight toroidal neighbours in the board before the step held 3  *)
(* alive cells, or it was alive and they held 2; this for every variant,   *)
(* shape and board.                                                        *)
(***************************************************************************)
C1_StepAppliesRule ==
    [][transitions' = transitions + 1 => Cell' = LifeRule(row, col, Cell)]_vars

\* A step of each kind has happened: after it the previous board is in the
\* next buffer, and a birth, a survival and a death are all visible.
C1_Witness ==
    /\ transitions >= 1
    /\ \E a, b, c \in DOMAIN Cell :
          /\ NextCycle[a] = 0 /\ Cell[a] = 1
          /\ NextCycle[b] = 1 /\ Cell[b] = 1
          /\ NextCycle[c] = 1 /\ Cell[c] = 0

\* The fingerprint of generation g equals that of an earlier generation.
Repeats(g) ==
    \E k \in 0..(g - 1) :
        Fingerprint(Generation(k)) = Fingerprint(Generation(g))

(***************************************************************************)
(* C2 (as claimed): with cycle detection enabled, a run that did not stop  *)
(* on an empty board has stopped as StoppedByCycle at the first generation *)
(* g >= 1 whose fingerprint repeats an earlier one, with no transition     *)
(* after it; it stops as StoppedByCycle at no other generation, and the    *)
(* fingerprint of every generation it went past is in the visited set.     *)
(***************************************************************************)
C2_CycleStopAtEveryRepeat ==
    (detectCycle /\ pc = "done" /\ Reason # "StoppedEmpty") =>
        /\ \A g \in 1..transitions :
              Repeats(g) => (Reason = "StoppedByCycle" /\ transitions = g)
        /\ Reason = "StoppedByCycle" => Repeats(transitions)
        /\ \A g \in 0..(transitions - 1) :
              Fingerprint(Generation(g)) \in history

(***************************************************************************)
(* C3: in the flat variant with cycle detection disabled, whenever the     *)
(* board after a transition is identical to the board before it, the run   *)
(* has stopped at that generation as StoppedStatic, with the static notice *)
(* for that generation as its only notice, and no further step is taken.   *)
(***************************************************************************)
C3_StaticBoardStops ==
    (variant = "flat" /\ ~detectCycle /\ transitions >= 1 /\ Cell = NextCycle)
        => /\ pc = "done"
           /\ Reason = "StoppedStatic"
           /\ Notices = <<Notice("Board became static", transitions)>>
           /\ ~ENABLED Next

\* A board that is not empty stopped the run as static at generation 2,
\* after a first transition that changed the board.
C3_Witness ==
    /\ variant = "flat"
    /\ ~detectCycle
    /\ transitions = 2
    /\ Cell = NextCycle
    /\ ~isEmptyBoard(Cell)
    /\ cell0 # Cell
    /\ Reason = "StoppedStatic"

(***************************************************************************)
(* C4 (as claimed): in the flat and the optimized variant, whenever the    *)
(* board a transition produced is all dead, the run has stopped at that    *)
(* generation as StoppedEmpty, with cycle detection enabled or not.        *)
(***************************************************************************)
C4_EmptyBoardStops ==
    (variant \in {"flat", "optimized"} /\ transitions >= 1
     /\ isEmptyBoard(Cell))
        => (pc = "done" /\ Reason = "StoppedEmpty")

(***************************************************************************)
(* C5 (as claimed): the flat variant started on an all-dead board with     *)
(* cycle detection disabled and steps >= 1 keeps the board all dead and    *)
(* its fingerprint unchanged, and ends at generation 1 as StoppedEmpty.    *)
(***************************************************************************)
C5_AllDeadStopsEmpty ==
    (variant = "flat" /\ ~detectCycle /\ Started /\ steps >= 1
     /\ isEmptyBoard(cell0))
        => /\ isEmptyBoard(Cell)
           /\ Fingerprint(Cell) = Fingerprint(cell0)
           /\ pc = "done" => (transitions = 1 /\ Reason = "StoppedEmpty")

(***************************************************************************)
(* C6 (as claimed): in final-only mode a run stopped by a detected cycle   *)
(* has emitted no board frame at all.                                      *)
(***************************************************************************)
C6_CycleStopRendersNothing ==
    (finalOnly /\ Reason = "StoppedByCycle") => Frames = <<>>

(***************************************************************************)
(* C6 (amended): in final-only mode a run stopped by a detected cycle has  *)
(* written only the cycle notice in the pointer and flat variants; in the  *)
(* optimized variant it has written the notice followed by the board at    *)
(* which the cycle was found, once and without a header line.              *)
(***************************************************************************)
C6_CycleStopOutput ==
    (finalOnly /\ Reason = "StoppedByCycle") =>
        /\ Len(Notices) = 1
        /\ out[1] = Notices[1]
        /\ IF variant = "optimized"
           THEN /\ out[1].n = transitions
                /\ Len(out) = 2
                /\ Frames = << [label |-> -1, board |-> Cell] >>
                /\ Cell = Generation(transitions)
           ELSE Len(out) = 1

\* A final-only run of the optimized variant stopped by a cycle found at its
\* second transition, on a board that is not empty: the board is written
\* after the notice.
C6_Witness ==
    /\ finalOnly
    /\ Reason = "StoppedByCycle"
    /\ variant = "optimized"
    /\ transitions = 2
    /\ ~isEmptyBoard(Cell)
    /\ Len(out) = 2

(***************************************************************************)
(* C7 (as claimed): in normal mode every finished run, whatever its        *)
(* terminal reason, has emitted 1 + (transitions completed) board frames.  *)
(***************************************************************************)
C7_FramesAreOnePlusTransitions ==
    (~finalOnly /\ pc = "done") => Len(Frames) = 1 + transitions

(***************************************************************************)
(* C8: in final-only mode a run that ends with no stop condition fired has *)
(* performed exactly `steps` transitions and written exactly one frame:    *)
(* its header carries `steps` and its board is the initial board after     *)
(* `steps` applications of the rule (steps = 0 in the optimized variant    *)
(* gives the initial board under the header 0).                            *)
(***************************************************************************)
C8_FinalOnlyOneFrame ==
    (finalOnly /\ Reason = "Completed") =>
        /\ transitions = steps
        /\ Len(out) = 2
        /\ IsHeader(out[1])
        /\ Frames = << [label |-> steps, board |-> Generation(steps)] >>

\* A final-only run completed two transitions that each changed the board.
C8_Witness ==
    /\ finalOnly
    /\ Reason = "Completed"
    /\ steps = 2
    /\ Generation(1) # cell0
    /\ Generation(2) # Generation(1)
    /\ Len(Frames) = 1

(***************************************************************************)
(* C9: in final-only mode a run of the flat variant that stops as          *)
(* StoppedStatic or StoppedEmpty has written, over the whole run, the stop *)
(* notice and then exactly one frame: the board that triggered the stop    *)
(* under the generation of the stop, also when that is the last requested  *)
(* generation.                                                             *)
(***************************************************************************)
C9_StopRendersOnce ==
    (finalOnly /\ Reason \in {"StoppedStatic", "StoppedEmpty"}) =>
        /\ Len(out) = 3
        /\ out[1] = Notice(IF Reason = "StoppedStatic"
                           THEN "Board became static"
                           ELSE "Board became empty", transitions)
        /\ Frames = << [label |-> transitions, board |-> Cell] >>
        /\ Cell = Generation(transitions)
        /\ IF Reason = "StoppedEmpty" THEN isEmptyBoard(Cell)
           ELSE Cell = NextCycle

\* A final-only run stopped as empty at the last requested generation,
\* where the loop would also have rendered the last frame.
C9_Witness ==
    /\ finalOnly
    /\ Reason = "StoppedEmpty"
    /\ transitions = steps
    /\ steps = 2
    /\ Len(Frames) = 1

(***************************************************************************)
(* C10: in normal mode frame 0, showing the initial board, is written      *)
(* before any transition; the frames carry the consecutive labels 0, 1,    *)
(* 2, ...; the frame labelled n shows the initial board after n            *)
(* applications of the rule, and is never written before transition n.     *)
(***************************************************************************)
C10_FramesInOrder ==
    (~finalOnly /\ Started) =>
        /\ Len(Frames) >= 1
        /\ Len(Frames) <= transitions + 1
        /\ \A k \in 1..Len(Frames) :
              /\ Frames[k].label = k - 1
              /\ Frames[k].board = Generation(k - 1)
        /\ \A k \in 1..Len(out) :
              IsHeader(out[k]) => (k < Len(out) /\ out[k + 1].kind = "board")

\* Three frames of a normal-mode run, each board differing from the one
\* before.
C10_Witness ==
    /\ ~finalOnly
    /\ Started
    /\ Len(Frames) = 3
    /\ Frames[2].board # Frames[1].board
    /\ Frames[3].board # Frames[2].board
    /\ Frames[3].board # Frames[1].board

(***************************************************************************)
(* Runs on the boards the specification's test patterns name: the random   *)
(* fill draws a blinker on the 6x6 grid, or a 2x2 block on a grid of 4 or  *)
(* more rows and columns.                                                  *)
(***************************************************************************)
MaxBlockSide == 5

\* The board of a rows x cols grid whose alive cells are the given
\* positions, taken on the torus.
BoardOf(rows, cols, alive) ==
    [idx \in 0..(rows * cols - 1) |->
        IF \E q \in alive : idx = (q[1] % rows) * cols + (q[2] % cols)
        THEN 1 ELSE 0]

\* The 2x2 block with its upper left cell at (r, c).
BlockCells(r, c) == {<<r, c>>, <<r, c + 1>>, <<r + 1, c>>, <<r + 1, c + 1>>}

BlockAt(rows, cols, r, c) == BoardOf(rows, cols, BlockCells(r, c))

\* The 3-cell blinker starting at (r, c), lying in its row or standing in
\* its column.
BlinkerCells(r, c, lying) ==
    IF lying
    THEN {<<r, c>>, <<r, c + 1>>, <<r, c + 2>>}
    ELSE {<<r, c>>, <<r + 1, c>>, <<r + 2, c>>}

BlinkerAt(rows, cols, r, c, lying) ==
    BoardOf(rows, cols, BlinkerCells(r, c, lying))

Blocks(rows, cols) ==
    {BlockAt(rows, cols, r, c) : r \in 0..(rows - 1), c \in 0..(cols - 1)}

Blinkers(rows, cols) ==
    {BlinkerAt(rows, cols, q[1], q[2], q[3]) :
        q \in (0..(rows - 1)) \X (0..(cols - 1)) \X BOOLEAN}

\* The pattern boards of a shape: blinkers on 6x6, blocks from 4x4 up to the
\* bound.
Patterns(rows, cols) ==
    (IF rows = 6 /\ cols = 6 THEN Blinkers(rows, cols) ELSE {})
    \cup (IF rows <= MaxBlockSide /\ cols <= MaxBlockSide
          THEN Blocks(rows, cols) ELSE {})

PatternInit ==
    /\ variant \in Variants
    /\ optRows \in 4..6
    /\ optCols \in 4..6
    /\ Patterns(optRows, optCols) # {}
    /\ optSteps \in 1..MaxSteps
    /\ finalOnly \in BOOLEAN
    /\ detectCycle \in BOOLEAN
    /\ pc = "main"
    /\ exitStatus = "none"
    /\ row = 0
    /\ col = 0
    /\ steps = 0
    /\ buf = [b \in Buffers |-> <<>>]
    /\ cellBuf = "bufA"
    /\ nextBuf = "bufB"
    /\ prevR = <<>>
    /\ nextR = <<>>
    /\ prevC = <<>>
    /\ nextC = <<>>
    /\ baseHash = U64Zero
    /\ history = {}
    /\ i = 0
    /\ boardEmpty = FALSE
    /\ boardStatic = FALSE
    /\ out = <<>>
    /\ cell0 = <<>>
    /\ transitions = 0

\* main and initBoard / init of any variant on an accepted configuration,
\* the random fill drawing a pattern board.
PatternMain ==
    /\ pc = "main"
    /\ \E b \in Patterns(optRows, optCols) :
          Construct(b, IF variant = "pointer"
                       THEN Uninitialised(optRows * optCols)
                       ELSE Zeroed(optRows * optCols))
    /\ IF variant = "optimized"
       THEN /\ prevR' = PrevTable(optRows)
            /\ nextR' = NextTable(optRows)
            /\ prevC' = PrevTable(optCols)
            /\ nextC' = NextTable(optCols)
            /\ baseHash' = BaseHash(optRows, optCols)
            /\ history' = IF detectCycle THEN {} ELSE history
       ELSE UNCHANGED <<tables, history>>

PatternNext ==
    \/ PatternMain
    \/ PointerStart
    \/ PointerIterate
    \/ PointerFinish
    \/ OptimizedStart
    \/ OptimizedIterate
    \/ OptimizedFinish
    \/ FlatStart
    \/ FlatIterate
    \/ FlatFinish

PatternSpec == PatternInit /\ [][PatternNext]_vars

\* The positions of the alive cells of a board, and a set of positions
\* wrapped onto the torus.
AliveCells(cols, board) ==
    {<<k \div cols, k % cols>> : k \in {k \in DOMAIN board : board[k] = 1}}

OnTorus(rows, cols, cells) == {<<q[1] % rows, q[2] % cols>> : q \in cells}

\* The alive cells of the board are one 2x2 block (board \in Blocks(rows,
\* cols), read from the board).
IsBlock(rows, cols, board) ==
    LET alive == AliveCells(cols, board)
    IN  \E r \in 0..(rows - 1), c \in 0..(cols - 1) :
            alive = OnTorus(rows, cols, BlockCells(r, c))

\* The alive cells of the board are one blinker.
IsBlinker(rows, cols, board) ==
    LET alive == AliveCells(cols, board)
    IN  \E r \in 0..(rows - 1), c \in 0..(cols - 1), lying \in BOOLEAN :
            alive = OnTorus(rows, cols, BlinkerCells(r, c, lying))

\* The run started on a blinker of the 6x6 grid.
OnBlinker == Started /\ row = 6 /\ col = 6 /\ IsBlinker(6, 6, cell0)

(***************************************************************************)
(* C11: on the 6x6 torus holding only a blinker, the board after one       *)
(* transition differs from the initial board, and the board after two      *)
(* transitions is the initial board again, with the fingerprint of         *)
(* generation 0.                                                           *)
(***************************************************************************)
C11_BlinkerPeriodTwo ==
    OnBlinker =>
        /\ transitions = 1 => (Cell # cell0 /\ IsBlinker(6, 6, Cell))
        /\ transitions = 2 =>
              /\ Cell = cell0
              /\ NextCycle # cell0
              /\ Fingerprint(Cell) = Fingerprint(cell0)

\* A run of the flat variant has taken a blinker through two transitions.
C11_Witness ==
    /\ OnBlinker
    /\ variant = "flat"
    /\ transitions = 2
    /\ Cell = cell0

(***************************************************************************)
(* C12 (as claimed): a run on a 6x6 blinker with cycle detection enabled   *)
(* and at least 2 requested generations ends with a cycle reported, after  *)
(* at most 2 transitions: it does not end as Completed.                    *)
(***************************************************************************)
C12_BlinkerCycleReported ==
    (OnBlinker /\ detectCycle /\ steps >= 2 /\ pc = "done") =>
        /\ Reason = "StoppedByCycle"
        /\ transitions <= 2

(***************************************************************************)
(* C13: on every grid of at least 4 rows and 4 columns whose only alive    *)
(* cells form a 2x2 block, at any position of the torus, a transition      *)
(* leaves the board unchanged: in every variant the current board equals   *)
(* the initial one after each transition, and so does the board before it. *)
(***************************************************************************)
C13_BlockIsStill ==
    (Started /\ row >= 4 /\ col >= 4 /\ IsBlock(row, col, cell0)
     /\ transitions >= 1)
        => (Cell = cell0 /\ NextCycle = cell0)

\* The optimized variant has stepped twice on a block that wraps across
\* both edges of a grid that is not square.
C13_Witness ==
    /\ Started
    /\ variant = "optimized"
    /\ row # col
    /\ cell0 = BlockAt(row, col, row - 1, col - 1)
    /\ transitions = 2
    /\ Cell = cell0

\* The configuration is outside what the variant accepts: a dimension is
\* not positive, or the generation count is negative (optimized variant)
\* or not positive (pointer and flat variants).
BadConfig ==
    \/ optRows <= 0
    \/ optCols <= 0
    \/ IF variant = "optimized" THEN optSteps < 0 ELSE optSteps <= 0

(***************************************************************************)
(* C14: a configuration with rows <= 0, cols <= 0 or a generation count    *)
(* outside the accepted range is rejected before the simulation starts:    *)
(* the process ends from main, by the uncaught invalid_argument of         *)
(* initBoard (pointer variant) or with exit status 1 (optimized and flat   *)
(* variants); start / run is never entered, no transition is performed,    *)
(* nothing is written to standard output by the simulation and no buffer   *)
(* is allocated.                                                           *)
(***************************************************************************)
C14_BadConfigRejected ==
    BadConfig =>
        /\ pc \in {"main", "rejected"}
        /\ pc = "rejected" =>
              IF variant = "pointer" THEN exitStatus = "abort"
              ELSE exitStatus = 1
        /\ transitions = 0
        /\ out = <<>>
        /\ history = {}
        /\ \A b \in Buffers : buf[b] = <<>>

\* The pointer variant has rejected a generation count of 0 on a grid with
\* positive dimensions.
C14_Witness ==
    /\ pc = "rejected"
    /\ variant = "pointer"
    /\ optRows > 0
    /\ optCols > 0
    /\ optSteps = 0
    /\ exitStatus = "abort"

(***************************************************************************)
(* The run as a function of its inputs.  Everything below reads only the   *)
(* variant, rows, cols, steps, the two mode flags and the initial board.   *)
(***************************************************************************)
\* A fingerprint is among those inserted so far.
Visited(fps, f) == \E k \in 1..Len(fps) : fps[k] = f

\* The end of a run: its terminal reason, the transitions it made, the
\* generations 0..n it went through and the fingerprints it inserted, in
\* order.
End(reason, n, gens, fps) ==
    [reason |-> reason, n |-> n, gens |-> gens, fps |-> fps]

RECURSIVE PointerEnd(_, _, _)
\* How a run of the pointer variant ends, from the top of the loop pass
\* that finds generation g current; gens holds the generations 0..g, fps
\* the fingerprints inserted before this pass.
PointerEnd(gens, fps, g) ==
    IF g >= steps THEN End("Completed", g, gens, fps)
    ELSE LET f == Fingerprint(gens[g + 1])
         IN  IF detectCycle /\ Visited(fps, f)
             THEN End("StoppedByCycle", g, gens, fps)
             ELSE PointerEnd(Append(gens, LifeRule(row, col, gens[g + 1])),
                             IF detectCycle THEN Append(fps, f) ELSE fps,
                             g + 1)

RECURSIVE OptimizedEnd(_, _, _)
\* The same for the optimized variant, from the top of loop pass t; gens
\* holds the generations 0..t-1.
OptimizedEnd(gens, fps, t) ==
    IF t > steps THEN End("Completed", t - 1, gens, fps)
    ELSE LET new == LifeRule(row, col, gens[t])
             f   == Fingerprint(new)
         IN  IF detectCycle /\ Visited(fps, f)
             THEN End("StoppedByCycle", t, Append(gens, new), fps)
             ELSE OptimizedEnd(Append(gens, new),
                               IF detectCycle THEN Append(fps, f) ELSE fps,
                               t + 1)

RECURSIVE FlatEnd(_, _, _, _)
\* The same for the flat variant, from the top of the loop pass that finds
\* generation g current; f is the fingerprint of generation g.
FlatEnd(gens, fps, f, g) ==
    IF g >= steps THEN End("Completed", g, gens, fps)
    ELSE IF detectCycle /\ Visited(fps, f)
    THEN End("StoppedByCycle", g, gens, fps)
    ELSE LET new   == LifeRule(row, col, gens[g + 1])
             fnew  == Fingerprint(new)
             gens1 == Append(gens, new)
             fps1  == IF detectCycle THEN Append(fps, f) ELSE fps
         IN  IF ~detectCycle /\ f = fnew
             THEN End("StoppedStatic", g + 1, gens1, fps1)
             ELSE IF fnew = U64Zero \/ isEmptyBoard(new)
             THEN End("StoppedEmpty", g + 1, gens1, fps1)
             ELSE FlatEnd(gens1, fps1, fnew, g + 1)

RunEnd ==
    IF variant = "pointer" THEN PointerEnd(<<cell0>>, <<>>, 0)
    ELSE IF variant = "optimized"
    THEN OptimizedEnd(<<cell0>>,
                      IF detectCycle THEN <<Fingerprint(cell0)>> ELSE <<>>, 1)
    ELSE FlatEnd(<<cell0>>, <<>>, Fingerprint(cell0), 0)

\* The frames of generations 0..m, each under its own label.
RECURSIVE FramesUpTo(_, _)
FramesUpTo(gens, m) ==
    IF m < 0 THEN <<>>
    ELSE Append(FramesUpTo(gens, m - 1), [label |-> m, board |-> gens[m + 1]])

\* The frames a finished run has written, given how it ends.
FramesOfRun(end) ==
    LET n     == end.n
        early == \/ end.reason \in {"StoppedStatic", "StoppedEmpty"}
                 \/ end.reason = "StoppedByCycle" /\ variant = "optimized"
    IN  IF ~finalOnly THEN FramesUpTo(end.gens, IF early THEN n - 1 ELSE n)
        ELSE IF end.reason = "StoppedByCycle"
        THEN IF variant = "optimized"
             THEN << [label |-> -1, board |-> end.gens[n + 1]] >>
             ELSE <<>>
        ELSE << [label |-> n, board |-> end.gens[n + 1]] >>

\* The stop notices a finished run has written, given how it ends.
NoticesOfRun(end) ==
    IF end.reason = "Completed" THEN <<>>
    ELSE IF end.reason = "StoppedByCycle"
    THEN << Notice("Cycle detected",
                   IF variant = "pointer" THEN -1 ELSE end.n) >>
    ELSE IF end.reason = "StoppedStatic"
    THEN << Notice("Board became static", end.n) >>
    ELSE << Notice("Board became empty", end.n) >>

\* A finished run is the run RunEnd computes from the inputs.
RunAsComputed ==
    pc = "done" =>
        LET end == RunEnd
        IN  /\ Reason = end.reason
            /\ transitions = end.n
            /\ Cell = end.gens[end.n + 1]
            /\ Frames = FramesOfRun(end)
            /\ Notices = NoticesOfRun(end)
            /\ history = {end.fps[k] : k \in 1..Len(end.fps)}

(***************************************************************************)
(* C15: the run is a function of its inputs.  A finished run has reached   *)
(* the terminal reason, made the transitions, written the frames and the   *)
(* notices, and inserted the fingerprints that RunEnd computes from rows,  *)
(* cols, steps, the mode flags and the initial board alone: two runs that  *)
(* agree on these agree on all of them.                                    *)
(***************************************************************************)
C15_RunIsFunctionOfInputs == []RunAsComputed

\* A run of the optimized variant with cycle detection has stopped on a
\* cycle at its third transition, after three boards that all differ.
C15_Witness ==
    /\ pc = "done"
    /\ variant = "optimized"
    /\ detectCycle
    /\ Reason = "StoppedByCycle"
    /\ transitions = 3
    /\ Cardinality(history) = 3

(***************************************************************************)
(* C16: a run writes at most one stop notice, and only as it ends; a run   *)
(* that has ended is in exactly one of Completed, StoppedByCycle,          *)
(* StoppedStatic, StoppedEmpty, as its notice (or the absence of one)      *)
(* says, and nothing more can happen in it: no transition, no fingerprint  *)
(* insertion, no notice.                                                   *)
(***************************************************************************)
C16_OneStopPerRun ==
    /\ Len(Notices) <= 1
    /\ Len(Notices) = 1 => pc = "done"
    /\ pc = "done" =>
          /\ Reason \in {"Completed", "StoppedByCycle", "StoppedStatic",
                         "StoppedEmpty"}
          /\ Reason = "Completed" <=> Notices = <<>>
          /\ ~ENABLED Next

\* A run with cycle detection enabled stopped on an empty board at its
\* second transition, before the last requested generation.
C16_Witness ==
    /\ pc = "done"
    /\ detectCycle
    /\ Reason = "StoppedEmpty"
    /\ transitions = 2
    /\ steps > 2
    /\ Len(Notices) = 1

(***************************************************************************)
(* start() / run() is one thread of control with nothing to wait for: a   *)
(* constructed run that has not returned executes its next statement, so  *)
(* its position (the label and the loop counter) eventually moves on.     *)
(* Which moves are possible, and what they do, is Next's business; every  *)
(* step of the run changes the label or increments the counter.           *)
(***************************************************************************)
Advance ==
    /\ pc \in {"start", "loop"}
    /\ pc' \in {"loop", "done"}
    /\ i' \in {i, i + 1}

FairSpec == Spec /\ WF_<<pc, i>>(Advance)

\* The run has been constructed and has not ended.
Running == pc \in {"start", "loop"}

\* The process has ended: main has returned or the configuration was
\* rejected.
Ended == pc \in {"done", "rejected"}

\* Never more than `steps` transitions; a finished run is Completed only
\* after exactly `steps` transitions, and a run that made `steps`
\* transitions and wrote no stop notice is Completed.
WithinSteps ==
    /\ transitions <= steps
    /\ pc = "done" =>
          /\ Reason = "Completed" => transitions = steps
          /\ (transitions = steps /\ Notices = <<>>) => Reason = "Completed"
          /\ Reason # "Completed" => Len(Notices) = 1

(***************************************************************************)
(* C17: every run terminates: once constructed it reaches a terminal       *)
(* state, after at most `steps` transitions, and it ends as Completed      *)
(* exactly when it made `steps` transitions and no stop condition fired.   *)
(***************************************************************************)
C17_RunTerminates == []WithinSteps /\ (Running ~> Ended)

\* A run has ended Completed after three transitions.
C17_Witness ==
    /\ pc = "done"
    /\ Reason = "Completed"
    /\ steps = 3
    /\ transitions = 3

\* The optimized program has built its tables (init has returned).
TablesBuilt == variant = "optimized" /\ pc \in {"start", "loop", "done"}

\* Table `prev` and table `next` of a dimension of `size` indexes hold the
\* wrapped predecessor and successor of every index, inside the grid.
WrapsAround(prev, next, size) ==
    /\ DOMAIN prev = 0..(size - 1)
    /\ DOMAIN next = 0..(size - 1)
    /\ \A k \in 0..(size - 1) :
          /\ prev[k] = (k - 1 + size) % size
          /\ next[k] = (k + 1) % size
          /\ prev[k] \in 0..(size - 1)
          /\ next[k] \in 0..(size - 1)
          /\ size = 1 => (prev[k] = k /\ next[k] = k)
          /\ size > 1 => (prev[next[k]] = k /\ next[prev[k]] = k)

TablesWrap ==
    TablesBuilt =>
        /\ WrapsAround(prevR, nextR, row)
        /\ WrapsAround(prevC, nextC, col)

TablesKept ==
    TablesBuilt => UNCHANGED <<prevR, nextR, prevC, nextC>>

(***************************************************************************)
(* C18: after init, prevRow[i] = (i - 1 + rows) mod rows and nextRow[i] =  *)
(* (i + 1) mod rows for every row index, likewise for columns; every       *)
(* entry lies inside the grid, also when rows = 1 or cols = 1; and no      *)
(* step of the run (step, hashState, run) changes a table.                 *)
(***************************************************************************)
C18_NeighbourTables == []TablesWrap /\ [][TablesKept]_vars

\* A finished optimized run on a grid of one row and several columns,
\* after two transitions, its tables as init built them.
C18_Witness ==
    /\ variant = "optimized"
    /\ pc = "done"
    /\ row = 1
    /\ col = 3
    /\ transitions = 2
    /\ prevR[0] = 0
    /\ prevC[0] = 2
    /\ nextC[2] = 0

\* A step of the optimized or of the flat program is taken.
BufferedStep ==
    /\ variant \in {"optimized", "flat"}
    /\ transitions' = transitions + 1

\* The body of the inner loop of the step now starting, for cell idx.
WriteCellOf(s, idx) ==
    IF variant = "flat"
    THEN WriteCellFlat(s, cellBuf, nextBuf, row, col, idx)
    ELSE WriteCellOptimized(s, cellBuf, nextBuf, col,
                            prevR, nextR, prevC, nextC, idx)

\* The buffers after the whole pass of the step now starting.
PassOfStep ==
    IF variant = "flat"
    THEN PassFlat(buf, cellBuf, nextBuf, row, col, row * col)
    ELSE PassOptimized(buf, cellBuf, nextBuf, col,
                       prevR, nextR, prevC, nextC, row * col)

RECURSIVE PassLeavesCurrent(_, _, _)
\* s is the buffers after k cell bodies: the current buffer is as the step
\* found it, the k cells written hold the rule's value on that snapshot
\* (`rule`), the cells not yet written hold what the next buffer held; and
\* so it is after each further body of the pass.
PassLeavesCurrent(s, k, rule) ==
    /\ s[cellBuf] = buf[cellBuf]
    /\ DOMAIN s[nextBuf] = 0..(row * col - 1)
    /\ \A idx \in 0..(row * col - 1) :
          s[nextBuf][idx] = IF idx < k THEN rule[idx] ELSE buf[nextBuf][idx]
    /\ k < row * col => PassLeavesCurrent(WriteCellOf(s, k), k + 1, rule)

StepWritesNextOnly ==
    BufferedStep =>
        LET rule == LifeRule(row, col, Cell)
        IN  /\ PassLeavesCurrent(buf, 0, rule)
            /\ buf' = PassOfStep
            /\ cellBuf' = nextBuf
            /\ nextBuf' = cellBuf
            /\ Cell' = rule
            /\ NextCycle' = Cell

(***************************************************************************)
(* C19: during the per-cell pass of a step the current buffer is never     *)
(* written; each cell's next value is computed from the board the step     *)
(* started on and written into the next buffer only; after the swap the    *)
(* current buffer holds the new generation and the next buffer the         *)
(* previous one.                                                           *)
(***************************************************************************)
C19_StepWritesNextOnly == [][StepWritesNextOnly]_vars

\* A flat run has made two transitions, each changing the board: the
\* current buffer holds generation 2 and the next buffer generation 1.
C19_Witness ==
    /\ variant = "flat"
    /\ transitions = 2
    /\ Cell = Generation(2)
    /\ NextCycle = Generation(1)
    /\ Cell # NextCycle
    /\ NextCycle # cell0

\* The largest board, in cells, whose step is run with one worker per cell.
MaxParallelCells == 4

\* A step of the optimized program on a board small enough is taken.
ParallelisedStep ==
    /\ variant = "optimized"
    /\ row * col <= MaxParallelCells
    /\ transitions' = transitions + 1

\* Every pass the workers can have made once each cell is computed and
\* assigned (2 events a cell), the barrier before the swap.
AtBarrier ==
    ParallelPass({PassStart(buf, cellBuf, nextBuf, row * col)},
                 col, prevR, nextR, prevC, nextC, 2 * row * col)

AnyOrderSameBoard ==
    ParallelisedStep =>
        /\ AtBarrier # {}
        /\ \A st \in AtBarrier :
              /\ st.stored = 0..(row * col - 1)
              /\ st.store = PassOptimized(buf, cellBuf, nextBuf, col,
                                          prevR, nextR, prevC, nextC,
                                          row * col)
              /\ st.store[nextBuf] = Cell'
              /\ st.store[cellBuf] = NextCycle'

(***************************************************************************)
(* C20: the board one step produces does not depend on the order in which  *)
(* the cells are evaluated: with the rows*cols cell evaluations run in any *)
(* order or interleaved in any way by concurrent workers, and the swap     *)
(* made only after every cell is written, the next board is the one the    *)
(* sequential row-major pass yields.                                       *)
(***************************************************************************)
C20_OrderIndependent == [][AnyOrderSameBoard]_vars

\* An optimized run on a 2x2 board has made two transitions, the first of
\* them changing the board.
C20_Witness ==
    /\ variant = "optimized"
    /\ row = 2
    /\ col = 2
    /\ transitions = 2
    /\ NextCycle # cell0
    /\ NextCycle = Generation(1)
    /\ Cell = Generation(2)

\* The fingerprints of the boards the run has reached so far.
ReachedFingerprints ==
    {Fingerprint(Generation(k)) : k \in 0..transitions}

HistoryOfReached ==
    /\ ~detectCycle => history = {}
    /\ pc \in {"start", "loop", "done"} => history \subseteq ReachedFingerprints

HistoryGrows == history \subseteq history'

(***************************************************************************)
(* C21: the visited-fingerprint set is empty throughout a run with cycle   *)
(* detection disabled; with cycle detection enabled no step of the run     *)
(* removes a fingerprint from it, and at every generation boundary it      *)
(* holds only fingerprints of boards the run reached at generations up to  *)
(* the current one.                                                        *)
(***************************************************************************)
C21_HistoryOfRun == []HistoryOfReached /\ [][HistoryGrows]_vars

\* A flat run with cycle detection has made three transitions through
\* boards that all differ: the set holds the fingerprints of generations
\* 0, 1 and 2 and not that of generation 3.
C21_Witness ==
    /\ variant = "flat"
    /\ detectCycle
    /\ transitions = 3
    /\ Cardinality(history) = 3
    /\ Fingerprint(Generation(2)) \in history
    /\ Fingerprint(Cell) \notin history

(***************************************************************************)
(* Runs on grids of one or more full 64-cell words: the fingerprint scan   *)
(* combines a word inside its loop there, which no grid of fewer than 64   *)
(* cells makes it do.                                                      *)
(***************************************************************************)
MaxWords == 2

\* Shapes of 64 cells or more whose last word is full or holds one or two
\* cells.
WordShapes ==
    {q \in {1, 5, 8} \X (1..(64 * MaxWords + 2)) :
        /\ q[1] * q[2] >= 64
        /\ q[1] * q[2] <= 64 * MaxWords + 2
        /\ (q[1] * q[2]) % 64 <= 2}

\* The alive cells of a board of the 1x64 grid whose successor has the
\* fingerprint 0 while holding alive cells.
ZeroParentAlive ==
    {0, 6, 7, 9, 13, 15, 17, 18, 20, 21, 23, 27, 28, 31, 33, 38, 39, 41,
     44, 50, 51, 57, 59}

\* The alive cells of a board of the 5x13 grid that holds a 2x2 block in
\* its first word and a lone cell as its 65th cell: the block stays, the
\* lone cell dies, so the board and its successor differ in the trailing
\* word only.
LoneTrailingAlive == {18, 19, 31, 32, 64}

\* The boards of n cells the fill draws here: every m-th cell alive for m
\* up to 3, one alive cell at either end of the board or of its first
\* word, no alive cell, and the boards above.
WordAlive(n) ==
    {{k \in 0..(n - 1) : k % q[1] = q[2]} :
        q \in {q \in (1..3) \X (0..2) : q[2] < q[1]}}
    \cup {{k} : k \in {0, 63, 64, n - 1} \cap (0..(n - 1))}
    \cup {{}}
    \cup (IF n = 64 THEN {ZeroParentAlive} ELSE {})
    \cup (IF n = 65 THEN {LoneTrailingAlive} ELSE {})

WordBoards(n) ==
    {[idx \in 0..(n - 1) |-> IF idx \in alive THEN 1 ELSE 0] :
        alive \in WordAlive(n)}

WordInit ==
    /\ variant \in Variants
    /\ \E q \in WordShapes : optRows = q[1] /\ optCols = q[2]
    /\ optSteps \in 1..2
    /\ finalOnly \in BOOLEAN
    /\ detectCycle \in BOOLEAN
    /\ pc = "main"
    /\ exitStatus = "none"
    /\ row = 0
    /\ col = 0
    /\ steps = 0
    /\ buf = [b \in Buffers |-> <<>>]
    /\ cellBuf = "bufA"
    /\ nextBuf = "bufB"
    /\ prevR = <<>>
    /\ nextR = <<>>
    /\ prevC = <<>>
    /\ nextC = <<>>
    /\ baseHash = U64Zero
    /\ history = {}
    /\ i = 0
    /\ boardEmpty = FALSE
    /\ boardStatic = FALSE
    /\ out = <<>>
    /\ cell0 = <<>>
    /\ transitions = 0

\* main and initBoard / init of any variant on an accepted configuration,
\* the random fill drawing one of the boards above.
WordMain ==
    /\ pc = "main"
    /\ \E b \in WordBoards(optRows * optCols) :
          Construct(b, IF variant = "pointer"
                       THEN Uninitialised(optRows * optCols)
                       ELSE Zeroed(optRows * optCols))
    /\ IF variant = "optimized"
       THEN /\ prevR' = PrevTable(optRows)
            /\ nextR' = NextTable(optRows)
            /\ prevC' = PrevTable(optCols)
            /\ nextC' = NextTable(optCols)
            /\ baseHash' = BaseHash(optRows, optCols)
            /\ history' = IF detectCycle THEN {} ELSE history
       ELSE UNCHANGED <<tables, history>>

WordNext ==
    \/ WordMain
    \/ PointerStart
    \/ PointerIterate
    \/ PointerFinish
    \/ OptimizedStart
    \/ OptimizedIterate
    \/ OptimizedFinish
    \/ FlatStart
    \/ FlatIterate
    \/ FlatFinish

WordSpec == WordInit /\ [][WordNext]_vars

RECURSIVE WordBits(_, _, _)
\* The value of the word whose bit k is the cell at flat index from + k,
\* for the len cells from flat index from on.
WordBits(board, from, len) ==
    IF len = 0 THEN 0
    ELSE board[from] + 2 * WordBits(board, from + 1, len - 1)

\* The word of len cells from flat index from on, as a 64-bit value.
WordOf(board, from, len) ==
    <<WordBits(board, from, IF len < 8 THEN len ELSE 8),
      WordBits(board, from + 8, IF len < 8 THEN 0 ELSE IF len < 16 THEN len - 8 ELSE 8),
      WordBits(board, from + 16, IF len < 16 THEN 0 ELSE IF len < 24 THEN len - 16 ELSE 8),
      WordBits(board, from + 24, IF len < 24 THEN 0 ELSE IF len < 32 THEN len - 24 ELSE 8),
      WordBits(board, from + 32, IF len < 32 THEN 0 ELSE IF len < 40 THEN len - 32 ELSE 8),
      WordBits(board, from + 40, IF len < 40 THEN 0 ELSE IF len < 48 THEN len - 40 ELSE 8),
      WordBits(board, from + 48, IF len < 48 THEN 0 ELSE IF len < 56 THEN len - 48 ELSE 8),
      WordBits(board, from + 56, IF len < 56 THEN 0 ELSE len - 56)>>

RECURSIVE FullWords(_, _, _, _)
\* h after one combine for each of the full words w, w + 1, ... below
\* count, in row-major order.
FullWords(h, board, w, count) ==
    IF w >= count THEN h
    ELSE FullWords(hash_combine(h, WordOf(board, 64 * w, 64)), board,
                   w + 1, count)

\* The fingerprint computed from scratch: the seed, then rows, then cols,
\* then one combine per full 64-cell word, then one combine for a trailing
\* partial word if there is one.
FromScratch(rows, cols, board) ==
    LET n == rows * cols
        h == FullWords(hash_combine(hash_combine(HashSeed, FromInt(rows)),
                                    FromInt(cols)),
                       board, 0, n \div 64)
    IN  IF n % 64 = 0 THEN h
        ELSE hash_combine(h, WordOf(board, 64 * (n \div 64), n % 64))

\* hashState() of the running variant in the current state.
hashStateNow ==
    IF variant = "optimized" THEN hashStateOptimized(baseHash, Cell, row * col)
    ELSE IF variant = "pointer" THEN hashStatePointer(row, col, Cell)
    ELSE hashStateFlat(row, col, Cell, row * col)

FingerprintIsFromScratch ==
    Started => hashStateNow = FromScratch(row, col, Cell)

(***************************************************************************)
(* C22: the fingerprint is a function of rows, cols and the contents of    *)
(* the current buffer alone: in every state of a run, whatever the next    *)
(* buffer, the visited set and the generation counter hold, hashState() of *)
(* the running variant (the optimized one starting from the base hash      *)
(* cached at init) is the value computed from scratch from the seed, then  *)
(* rows, then cols, then one combine per full 64-cell word in row-major    *)
(* order, then one combine for a trailing partial word if any.             *)
(***************************************************************************)
C22_FingerprintIsPure == []FingerprintIsFromScratch

\* An optimized run on a 1x129 grid (two full words and a one-cell partial
\* word) with cycle detection has made a transition onto a board that has
\* alive cells in both full words: the visited set holds two fingerprints
\* and the next buffer holds another board than the current one.
C22_Witness ==
    /\ variant = "optimized"
    /\ detectCycle
    /\ row = 1
    /\ col = 129
    /\ transitions = 1
    /\ Cardinality(history) = 2
    /\ NextCycle # Cell
    /\ \E k \in 0..63 : Cell[k] = 1
    /\ \E k \in 64..127 : Cell[k] = 1

\* The fingerprint the cells of the current board get on the grid with
\* rows and cols swapped: the same flattened row-major sequence, cols rows
\* of rows cells.
SwappedFingerprint == hashStateFlat(col, row, Cell, row * col)

ShapeTellsApart ==
    Started /\ row # col => hashStateNow # SwappedFingerprint

(***************************************************************************)
(* C23: two grids with the same flattened row-major cell sequence and      *)
(* rows and cols swapped, rows # cols, have different fingerprints: in     *)
(* every state of a run on a grid with rows # cols, the fingerprint of     *)
(* the current board differs from the fingerprint its cells get on the     *)
(* cols x rows grid.                                                       *)
(***************************************************************************)
C23_SwappedShapesDiffer == []ShapeTellsApart

\* A flat run on a 2x4 grid has made two transitions and holds a board
\* with alive and dead cells; its cells on the 4x2 grid get another
\* fingerprint, which the run has not seen either.
C23_Witness ==
    /\ variant = "flat"
    /\ detectCycle
    /\ row = 2
    /\ col = 4
    /\ transitions = 2
    /\ \E k \in DOMAIN Cell : Cell[k] = 1
    /\ \E k \in DOMAIN Cell : Cell[k] = 0
    /\ hashStateNow # SwappedFingerprint
    /\ SwappedFingerprint \notin history

\* The cells of a buffer of the size of the grid.
GridCells == 0..(row * col - 1)

TwoBuffers ==
    pc \in {"start", "loop", "done"} =>
        /\ cellBuf \in Buffers
        /\ nextBuf \in Buffers
        /\ cellBuf # nextBuf
        /\ DOMAIN buf[cellBuf] = GridCells
        /\ DOMAIN buf[nextBuf] = GridCells

\* A step that changes what a name refers to exchanges the two names and
\* leaves every buffer its size.
SwapExchanges ==
    /\ (cellBuf' # cellBuf \/ nextBuf' # nextBuf) =>
           (cellBuf' = nextBuf /\ nextBuf' = cellBuf)
    /\ pc \in {"start", "loop"} =>
           \A b \in Buffers : DOMAIN buf'[b] = DOMAIN buf[b]

(***************************************************************************)
(* C24: in every state of a run the current buffer and the next buffer     *)
(* are two distinct buffers of rows * cols cells each; the swap exchanges  *)
(* the two names, never makes both refer to the same storage and never     *)
(* changes the size of a buffer.                                           *)
(***************************************************************************)
C24_TwoDistinctBuffers == []TwoBuffers /\ [][SwapExchanges]_vars

\* A pointer run on a 2x4 grid has swapped three times: the names are
\* exchanged with respect to the construction, and the two buffers hold
\* different boards of eight cells.
C24_Witness ==
    /\ variant = "pointer"
    /\ row = 2
    /\ col = 4
    /\ transitions = 3
    /\ cellBuf = "bufB"
    /\ nextBuf = "bufA"
    /\ Cell # NextCycle
    /\ DOMAIN Cell = 0..7
    /\ DOMAIN NextCycle = 0..7

\* The run has stopped as static: the board after its last transition is
\* the current buffer, the board before it is what the swap left in the
\* next buffer.
StaticStopOnSameBoard ==
    Reason = "StoppedStatic" =>
        /\ transitions >= 1
        /\ \A idx \in GridCells : Cell[idx] = NextCycle[idx]

\* The step that stops the run as static leaves the board as it was: the
\* board after it is cell for cell the board before it.
StaticStopStep ==
    (Reason # "StoppedStatic" /\ Reason' = "StoppedStatic") =>
        /\ transitions' = transitions + 1
        /\ \A idx \in GridCells : Cell'[idx] = Cell[idx]

(***************************************************************************)
(* C25: a run stops as StoppedStatic only when the board after the         *)
(* transition is cell for cell the board before it; no static stop is      *)
(* reported for a board that changed.  Checked on grids of more than one   *)
(* fingerprint word, where equal fingerprints of different boards are not  *)
(* excluded by the form of the hash.                                       *)
(***************************************************************************)
C25_StaticStopOnlyWhenSame ==
    []StaticStopOnSameBoard /\ [][StaticStopStep]_vars

\* A flat run on the 5x13 grid stopped as static after its second
\* transition: the first changed the board in its trailing word only (the
\* lone 65th cell died), the second changed nothing, and the board it
\* stopped on still holds the block.
C25_Witness ==
    /\ variant = "flat"
    /\ row = 5
    /\ col = 13
    /\ Reason = "StoppedStatic"
    /\ transitions = 2
    /\ cell0[64] = 1
    /\ Cell[64] = 0
    /\ \A idx \in 0..63 : Cell[idx] = cell0[idx]
    /\ Cell = NextCycle
    /\ ~isEmptyBoard(Cell)

(***************************************************************************)
(* C26 (as claimed): a run stops as StoppedEmpty only when every cell of   *)
(* the board produced by its last transition is dead, whatever the         *)
(* fingerprint of that board is.                                           *)
(***************************************************************************)
C26_EmptyStopOnlyWhenEmpty ==
    Reason = "StoppedEmpty" => isEmptyBoard(Cell)

\* The next board of the current one by the step that wraps a coordinate
\* once after the offset (pointer and flat variants), and by the step that
\* reads the prev/next index tables of the shape (optimized variant).
ByWrapPointer == stepPointer(row, col, Cell)

ByWrapFlat == stepFlat(row, col, Cell)

ByTables ==
    stepOptimized(row, col, Cell, PrevTable(row), NextTable(row),
                  PrevTable(col), NextTable(col))

\* Wherever a run holds a board it may step, the three steps agree on it.
StepsAgree ==
    pc \in {"start", "loop"} =>
        (ByWrapPointer = ByTables /\ ByWrapFlat = ByTables)

(***************************************************************************)
(* C27: the step that wraps neighbour coordinates by adding or             *)
(* subtracting rows / cols once after a +-1 offset and the step that uses  *)
(* the precomputed prev/next index tables give the same next board, for    *)
(* every board and every shape with rows >= 1 and cols >= 1, shapes with   *)
(* a dimension of 1 or 2 included, where a cell or a neighbour is counted  *)
(* several times.                                                          *)
(***************************************************************************)
C27_WrapAndTablesAgree == []StepsAgree

\* An optimized run on the 2x2 grid started with three alive cells: every
\* cell has each of the other three among its neighbours several times (two
\* twice, one four times), so the dead cell counts 8 and the alive ones 6,
\* and the table step left the board empty, as the wrapping step does.
C27_Witness ==
    /\ variant = "optimized"
    /\ row = 2
    /\ col = 2
    /\ transitions = 1
    /\ Cardinality({k \in DOMAIN cell0 : cell0[k] = 1}) = 3
    /\ isEmptyBoard(Cell)
    /\ stepFlat(row, col, cell0) = Cell
    /\ stepPointer(row, col, cell0) = Cell

=============================================================================
